---- MODULE Spec2Model ----
(***************************************************************************)
(* Model of the VM service layer of the admin front end: the action        *)
(* dispatcher handleVMAction, the loader loadUserVMs, the status           *)
(* normalizer normalizeVMStatus and the shared mockVMs array.              *)
(*                                                                         *)
(* JavaScript strings are sequences of one-character strings, so that      *)
(* toLowerCase, === and template concatenation are computed, not assumed.  *)
(* A string-typed value that may be undefined is either such a sequence or *)
(* the value Undefined.  An object-typed value that may be undefined is a  *)
(* sequence of length 0 (undefined) or 1 (the object).                     *)
(***************************************************************************)
EXTENDS Integers, Sequences, FiniteSets, TLC

\* ------------------------------------------------------------------ bounds

\* Largest number of calls suspended at their await at the same time.
MaxInFlight == 2

\* ------------------------------------------------------- JavaScript values

\* The value undefined where a string is expected.
Undefined == <<"undefined">>

\* null, where a string may be null.
Null == <<"null">>

\* Truthiness of a string, undefined or null: undefined, null and '' are
\* falsy.
Truthy(v) == v # Undefined /\ v # Null /\ v # <<>>

\* a || b on string-or-undefined values.
OrElse(a, b) == IF Truthy(a) THEN a ELSE b

UpperCaseLetters ==
  <<"A", "B", "C", "D", "E", "F", "G", "H", "I", "J", "K", "L", "M",
    "N", "O", "P", "Q", "R", "S", "T", "U", "V", "W", "X", "Y", "Z">>

LowerCaseLetters ==
  <<"a", "b", "c", "d", "e", "f", "g", "h", "i", "j", "k", "l", "m",
    "n", "o", "p", "q", "r", "s", "t", "u", "v", "w", "x", "y", "z">>

\* String.prototype.toLowerCase on one character.
toLowerChar(c) ==
  IF \E i \in 1..26 : UpperCaseLetters[i] = c
  THEN LowerCaseLetters[CHOOSE i \in 1..26 : UpperCaseLetters[i] = c]
  ELSE c

\* String.prototype.toLowerCase.
toLowerCase(s) ==
  IF s = <<>> THEN <<>> ELSE [i \in 1..Len(s) |-> toLowerChar(s[i])]

\* ---------------------------------------------------------- string literals

\* 'Running'
Running ==
  <<"R", "u", "n", "n", "i", "n", "g">>

\* 'Stopped'
Stopped ==
  <<"S", "t", "o", "p", "p", "e", "d">>

\* 'Starting'
Starting ==
  <<"S", "t", "a", "r", "t", "i", "n", "g">>

\* 'Stopping'
Stopping ==
  <<"S", "t", "o", "p", "p", "i", "n", "g">>

\* 'Paused'
Paused ==
  <<"P", "a", "u", "s", "e", "d">>

\* 'Error'
Error ==
  <<"E", "r", "r", "o", "r">>

\* 'running'
lc_running ==
  <<"r", "u", "n", "n", "i", "n", "g">>

\* 'stopped'
lc_stopped ==
  <<"s", "t", "o", "p", "p", "e", "d">>

\* 'starting'
lc_starting ==
  <<"s", "t", "a", "r", "t", "i", "n", "g">>

\* 'stopping'
lc_stopping ==
  <<"s", "t", "o", "p", "p", "i", "n", "g">>

\* 'paused'
lc_paused ==
  <<"p", "a", "u", "s", "e", "d">>

\* 'start'
lc_start ==
  <<"s", "t", "a", "r", "t">>

\* 'stop'
lc_stop ==
  <<"s", "t", "o", "p">>

\* 'restart'
lc_restart ==
  <<"r", "e", "s", "t", "a", "r", "t">>

\* 'reset'
lc_reset ==
  <<"r", "e", "s", "e", "t">>

\* 'windows'
lc_windows ==
  <<"w", "i", "n", "d", "o", "w", "s">>

\* 'linux'
lc_linux ==
  <<"l", "i", "n", "u", "x">>

\* 'vm-001'
vm_001 ==
  <<"v", "m", "-", "0", "0", "1">>

\* 'Windows Development'
WindowsDevelopment ==
  <<"W", "i", "n", "d", "o", "w", "s", " ", "D", "e", "v", "e", "l", "o", "p", "m", "e", "n", "t">>

\* 'Windows'
Windows ==
  <<"W", "i", "n", "d", "o", "w", "s">>

\* 'emp-001'
emp_001 ==
  <<"e", "m", "p", "-", "0", "0", "1">>

\* '12h 45m'
uptime_12h45m ==
  <<"1", "2", "h", " ", "4", "5", "m">>

\* 'Good'
Good ==
  <<"G", "o", "o", "d">>

\* '10.0.0.15'
ip_10_0_0_15 ==
  <<"1", "0", ".", "0", ".", "0", ".", "1", "5">>

\* '2025-04-15 09:30'
snapshot_0415 ==
  <<"2", "0", "2", "5", "-", "0", "4", "-", "1", "5", " ", "0", "9", ":", "3", "0">>

\* 'vm-002'
vm_002 ==
  <<"v", "m", "-", "0", "0", "2">>

\* 'Linux Server'
LinuxServer ==
  <<"L", "i", "n", "u", "x", " ", "S", "e", "r", "v", "e", "r">>

\* 'Linux'
Linux ==
  <<"L", "i", "n", "u", "x">>

\* 'emp-002'
emp_002 ==
  <<"e", "m", "p", "-", "0", "0", "2">>

\* '0h 0m'
uptime_0h0m ==
  <<"0", "h", " ", "0", "m">>

\* '10.0.0.16'
ip_10_0_0_16 ==
  <<"1", "0", ".", "0", ".", "0", ".", "1", "6">>

\* '2025-04-14 17:15'
snapshot_0414 ==
  <<"2", "0", "2", "5", "-", "0", "4", "-", "1", "4", " ", "1", "7", ":", "1", "5">>

\* 'VM '
txt_VM ==
  <<"V", "M", " ">>

\* ' initiated'
txt_initiated ==
  <<" ", "i", "n", "i", "t", "i", "a", "t", "e", "d">>

\* 'The VM is now being '
txt_TheVMIsNowBeing ==
  <<"T", "h", "e", " ", "V", "M", " ", "i", "s", " ", "n", "o", "w", " ", "b", "e", "i", "n", "g", " ">>

\* 'ed.'
txt_ed ==
  <<"e", "d", ".">>

\* ' Failed'
txt_Failed ==
  <<" ", "F", "a", "i", "l", "e", "d">>

\* 'Failed to '
txt_FailedTo ==
  <<"F", "a", "i", "l", "e", "d", " ", "t", "o", " ">>

\* ' VM.'
txt_VMdot ==
  <<" ", "V", "M", ".">>

\* 'Unsupported action: '
txt_UnsupportedAction ==
  <<"U", "n", "s", "u", "p", "p", "o", "r", "t", "e", "d", " ", "a", "c", "t", "i", "o", "n", ":", " ">>

\* 'Unexpected API response format'
txt_UnexpectedFormat ==
  <<"U", "n", "e", "x", "p", "e", "c", "t", "e", "d", " ", "A", "P", "I", " ", "r", "e", "s", "p", "o", "n", "s", "e", " ", "f", "o", "r", "m", "a", "t">>

\* 'Failed to fetch VMs data'
txt_FailedToFetch ==
  <<"F", "a", "i", "l", "e", "d", " ", "t", "o", " ", "f", "e", "t", "c", "h", " ", "V", "M", "s", " ", "d", "a", "t", "a">>

\* 'Error Loading VMs'
txt_ErrorLoadingVMs ==
  <<"E", "r", "r", "o", "r", " ", "L", "o", "a", "d", "i", "n", "g", " ", "V", "M", "s">>

\* 'Failed to load virtual machines.'
txt_FailedToLoad ==
  <<"F", "a", "i", "l", "e", "d", " ", "t", "o", " ", "l", "o", "a", "d", " ", "v", "i", "r", "t", "u", "a", "l", " ", "m", "a", "c", "h", "i", "n", "e", "s", ".">>

\* ------------------------------------------------------------ input values

\* 'Start'
act_Start ==
  <<"S", "t", "a", "r", "t">>

\* 'Stop'
act_Stop ==
  <<"S", "t", "o", "p">>

\* 'Restart'
act_Restart ==
  <<"R", "e", "s", "t", "a", "r", "t">>

\* 'restart'
in_restart ==
  <<"r", "e", "s", "t", "a", "r", "t">>

\* 'reset'
in_reset ==
  <<"r", "e", "s", "e", "t">>

\* 'RESET'
in_RESET ==
  <<"R", "E", "S", "E", "T">>

\* 'launch'
in_launch ==
  <<"l", "a", "u", "n", "c", "h">>

\* 'VM request accepted'
msg_accepted ==
  <<"V", "M", " ", "r", "e", "q", "u", "e", "s", "t", " ", "a", "c", "c", "e", "p", "t", "e", "d">>

\* 'https://guac/c1'
url_console ==
  <<"h", "t", "t", "p", "s", ":", "/", "/", "g", "u", "a", "c", "/", "c", "1">>

\* 'Instance not found'
msg_denied ==
  <<"I", "n", "s", "t", "a", "n", "c", "e", " ", "n", "o", "t", " ", "f", "o", "u", "n", "d">>

\* 'Network Error'
msg_network ==
  <<"N", "e", "t", "w", "o", "r", "k", " ", "E", "r", "r", "o", "r">>

\* 'h '
txt_h ==
  <<"h", " ">>

\* 'm'
txt_m ==
  <<"m">>

\* 'vm-'
txt_vm_dash ==
  <<"v", "m", "-">>

\* ' VM'
txt_spaceVM ==
  <<" ", "V", "M">>

\* 'undefined'
txt_undefined ==
  <<"u", "n", "d", "e", "f", "i", "n", "e", "d">>

\* 'NaN'
txt_NaN ==
  <<"N", "a", "N">>

\* 'running'
in_running ==
  <<"r", "u", "n", "n", "i", "n", "g">>

\* 'STOPPED'
in_STOPPED ==
  <<"S", "T", "O", "P", "P", "E", "D">>

\* 'stopped'
in_stopped ==
  <<"s", "t", "o", "p", "p", "e", "d">>

\* 'i-0a1'
in_instance_1 ==
  <<"i", "-", "0", "a", "1">>

\* 'i-0b2'
in_instance_2 ==
  <<"i", "-", "0", "b", "2">>

\* 'Ada'
in_user_name ==
  <<"A", "d", "a">>

\* 'ada@x.io'
in_user_email ==
  <<"a", "d", "a", "@", "x", ".", "i", "o">>

\* '2025-04-01'
in_created_at ==
  <<"2", "0", "2", "5", "-", "0", "4", "-", "0", "1">>

\* 'oops'
in_oops ==
  <<"o", "o", "p", "s">>

\* 'error'
in_error ==
  <<"e", "r", "r", "o", "r">>

\* 'unknown-state'
in_unknown_state ==
  <<"u", "n", "k", "n", "o", "w", "n", "-", "s", "t", "a", "t", "e">>

\* 'run'
in_run ==
  <<"r", "u", "n">>

\* 'stoppedd'
in_stoppedd ==
  <<"s", "t", "o", "p", "p", "e", "d", "d">>

\* 'paused '
in_paused_space ==
  <<"p", "a", "u", "s", "e", "d", " ">>

\* 'RUNNING'
in_RUNNING ==
  <<"R", "U", "N", "N", "I", "N", "G">>

\* 'Paused'
in_Paused ==
  <<"P", "a", "u", "s", "e", "d">>

\* '2h 5m'
uptime_2h5m ==
  <<"2", "h", " ", "5", "m">>

\* 'NaNh NaNm'
uptime_NaN ==
  <<"N", "a", "N", "h", " ", "N", "a", "N", "m">>

\* --------------------------------------------------------------------- state

VARIABLES
  mockVMs,   \* the module-level mockVMs array (its two entries are shared objects)
  pending,   \* the calls suspended at their await, in the order they were issued
  last,      \* the record of the call that completed most recently
  input,     \* the argument of a function applied on its own
  output     \* <<>>, or <<its result>> once the function has been applied

vars == <<mockVMs, pending, last, input, output>>

\* The mockVMs array as the module initialises it.
initialMockVMs ==
  << [ id |-> vm_001, name |-> WindowsDevelopment, status |-> Running,
       os |-> Windows, assigned_user |-> emp_001, uptime |-> uptime_12h45m,
       health |-> Good, ip_address |-> ip_10_0_0_15,
       last_snapshot |-> snapshot_0415,
       resources |-> [cpu |-> 45, memory |-> 60, disk |-> 30, network |-> 25] ],
     [ id |-> vm_002, name |-> LinuxServer, status |-> Stopped,
       os |-> Linux, assigned_user |-> emp_002, uptime |-> uptime_0h0m,
       health |-> Good, ip_address |-> ip_10_0_0_16,
       last_snapshot |-> snapshot_0414,
       resources |-> [cpu |-> 0, memory |-> 0, disk |-> 15, network |-> 0] ] >>

\* No call has completed yet.
noCall ==
  [ fn |-> "none", vmId |-> Undefined, action |-> Undefined,
    instanceOs |-> Undefined, employeeId |-> Undefined,
    remote |-> <<>>, settled |-> <<>>, toasts |-> <<>>,
    outcome |-> "none", returned |-> <<>>, thrown |-> <<>>,
    before |-> initialMockVMs, overtaken |-> FALSE ]

Init ==
  /\ mockVMs = initialMockVMs
  /\ pending = <<>>
  /\ last = noCall
  /\ input = <<>>
  /\ output = <<>>

\* The sequence s without its i-th element.
RemoveAt(s, i) == [j \in 1..(Len(s) - 1) |-> IF j < i THEN s[j] ELSE s[j + 1]]

\* The call is a single-user loadUserVMs, the one call that writes mockVMs.
IsSingleUserLoad(call) == call.fn = "loadUserVMs" /\ Truthy(call.employeeId)

\* The suspended calls once the awaited request of the i-th of them has
\* settled and the call has run to its end.  When that call is a single-user
\* load, the single-user loads issued before it are noted as overtaken.
Completing(i) ==
  RemoveAt([j \in 1..Len(pending) |->
              IF /\ j < i
                 /\ IsSingleUserLoad(pending[i])
                 /\ IsSingleUserLoad(pending[j])
              THEN [pending[j] EXCEPT !.overtaken = TRUE]
              ELSE pending[j]], i)

\* ------------------------------------------------------------- notifications

\* toast(title, {description}): the plain notification the dispatcher uses
\* to report success.
toast(title, description) ==
  [kind |-> "toast", title |-> title, description |-> description]

\* toast.error(title, {description}); description is Undefined when the call
\* passes no options.
toast_error(title, description) ==
  [kind |-> "toast.error", title |-> title, description |-> description]

\* ------------------------------------------------------------ handleVMAction

\* new Error(`Unsupported action: ${action}`): no response property.
UnsupportedActionError(action) ==
  [ name |-> "Error", message |-> txt_UnsupportedAction \o action,
    response |-> <<>> ]

\* error.response?.data?.message
errorResponseDataMessage(error) ==
  IF error.response = <<>> THEN Undefined
  ELSE IF error.response[1].data = <<>> THEN Undefined
  ELSE error.response[1].data[1].message

\* The switch with the case 'stop' falling through into the next case.
switchAction_stopFallsThrough(action) ==
  LET a == toLowerCase(action) IN
  IF a = lc_start THEN <<"startVM">>
  ELSE IF a = lc_stop \/ a = lc_restart \/ a = lc_reset THEN <<"restartVM">>
  ELSE <<>>

\* The switch with a default branch that starts the VM instead of throwing.
switchAction_defaultStarts(action) ==
  LET a == toLowerCase(action) IN
  IF a = lc_stop THEN <<"stopVM">>
  ELSE IF a = lc_restart \/ a = lc_reset THEN <<"restartVM">>
  ELSE <<"startVM">>

\* The switch without the case 'reset'.
switchAction_noResetCase(action) ==
  LET a == toLowerCase(action) IN
  IF a = lc_start THEN <<"startVM">>
  ELSE IF a = lc_stop THEN <<"stopVM">>
  ELSE IF a = lc_restart THEN <<"restartVM">>
  ELSE <<>>

\* The switch on the action as given, without toLowerCase().
switchAction_caseSensitive(action) ==
  IF action = lc_start THEN <<"startVM">>
  ELSE IF action = lc_stop THEN <<"stopVM">>
  ELSE IF action = lc_restart \/ action = lc_reset THEN <<"restartVM">>
  ELSE <<>>

\* The switch on action.toLowerCase(): the vmService operation the action
\* selects, <<>> for the default branch.
switchAction(action) ==
  LET a == toLowerCase(action) IN
  IF a = lc_start THEN <<"startVM">>
  ELSE IF a = lc_stop THEN <<"stopVM">>
  ELSE IF a = lc_restart \/ a = lc_reset THEN <<"restartVM">>
  ELSE <<>>

\* The vmService invocation of a case of the switch.
remoteCall(op, instanceOs, employeeId) ==
  [op |-> op, args |-> <<instanceOs, employeeId>>]

\* The catch block without its final throw: the failure becomes a normal
\* return of undefined.
handleVMAction_catch_swallows(action, error) ==
  [ toasts |-> << toast_error(txt_VM \o action \o txt_Failed,
                              OrElse(errorResponseDataMessage(error),
                                     txt_FailedTo \o toLowerCase(action) \o txt_VMdot)) >>,
    outcome |-> "returned", returned |-> <<>>, thrown |-> <<>> ]

\* The catch block: one error notification, then the error is thrown again.
handleVMAction_catch(action, error) ==
  [ toasts |-> << toast_error(txt_VM \o action \o txt_Failed,
                              OrElse(errorResponseDataMessage(error),
                                     txt_FailedTo \o toLowerCase(action) \o txt_VMdot)) >>,
    outcome |-> "thrown", returned |-> <<>>, thrown |-> <<error>> ]

\* The statements after the switch with the fallback text always used.
handleVMAction_resolved_ignoresMessage(action, response) ==
  [ toasts |-> << toast(txt_VM \o action \o txt_initiated,
                        txt_TheVMIsNowBeing \o toLowerCase(action) \o txt_ed) >>,
    outcome |-> "returned", returned |-> <<response>>, thrown |-> <<>> ]

\* The statements after the switch, once the awaited operation has resolved.
handleVMAction_resolved(action, response) ==
  [ toasts |-> << toast(txt_VM \o action \o txt_initiated,
                        OrElse(response.message,
                               txt_TheVMIsNowBeing \o toLowerCase(action) \o txt_ed)) >>,
    outcome |-> "returned", returned |-> <<response>>, thrown |-> <<>> ]

\* The record of a completed call; before is mockVMs as the step that
\* completes the call finds it, overtaken whether this single-user load was
\* suspended while a single-user load issued after it ran to its end.
completed(call, settled, result) ==
  [ fn |-> call.fn, vmId |-> call.vmId, action |-> call.action,
    instanceOs |-> call.instanceOs, employeeId |-> call.employeeId,
    remote |-> call.remote, settled |-> settled,
    toasts |-> call.toasts \o result.toasts,
    outcome |-> result.outcome, returned |-> result.returned,
    thrown |-> result.thrown, before |-> mockVMs,
    overtaken |-> call.overtaken ]

\* A call of handleVMAction runs up to its await: a supported action invokes
\* its vmService operation and suspends; any other action throws inside the
\* try block and the call completes in the catch block.
handleVMAction(vmId, action, instanceOs, employeeId) ==
  LET op == switchAction(action)
      call == [ fn |-> "handleVMAction", vmId |-> vmId, action |-> action,
                instanceOs |-> instanceOs, employeeId |-> employeeId,
                remote |-> IF op = <<>> THEN <<>>
                           ELSE <<remoteCall(op[1], instanceOs, employeeId)>>,
                toasts |-> <<>>, overtaken |-> FALSE ]
  IN
  /\ IF op # <<>>
     THEN /\ Len(pending) < MaxInFlight
          /\ pending' = Append(pending, call)
          /\ UNCHANGED last
     ELSE /\ last' = completed(call, <<>>,
                       handleVMAction_catch(action, UnsupportedActionError(action)))
          /\ UNCHANGED pending
  /\ UNCHANGED <<mockVMs, input, output>>

\* The settling of a call that also records the VM as Stopped in mockVMs.
handleVMAction_settled_marksStopped(i, settlement) ==
  /\ i \in 1..Len(pending)
  /\ pending[i].fn = "handleVMAction"
  /\ LET call == pending[i] IN
     /\ last' = completed(call, <<settlement>>,
                  IF settlement.ok
                  THEN handleVMAction_resolved(call.action, settlement.value)
                  ELSE handleVMAction_catch(call.action, settlement.value))
     /\ mockVMs' = [j \in 1..Len(mockVMs) |->
                      IF settlement.ok /\ mockVMs[j].id = call.vmId
                      THEN [mockVMs[j] EXCEPT !.status = Stopped]
                      ELSE mockVMs[j]]
  /\ pending' = Completing(i)
  /\ UNCHANGED <<input, output>>

\* The awaited vmService operation of the i-th suspended call settles and the
\* call runs to its end.
handleVMAction_settled(i, settlement) ==
  /\ i \in 1..Len(pending)
  /\ pending[i].fn = "handleVMAction"
  /\ LET call == pending[i] IN
     last' = completed(call, <<settlement>>,
               IF settlement.ok
               THEN handleVMAction_resolved(call.action, settlement.value)
               ELSE handleVMAction_catch(call.action, settlement.value))
  /\ pending' = Completing(i)
  /\ UNCHANGED <<mockVMs, input, output>>

\* --------------------------------------------------------- normalizeVMStatus

\* The six values of the type VMStatus.
VMStatus == {Running, Stopped, Starting, Stopping, Paused, Error}

\* The normalizer comparing the status as given, without lower-casing it.
normalizeVMStatus_caseSensitive(status) ==
  IF status = lc_running THEN Running
  ELSE IF status = lc_stopped THEN Stopped
  ELSE IF status = lc_starting THEN Starting
  ELSE IF status = lc_stopping THEN Stopping
  ELSE IF status = lc_paused THEN Paused
  ELSE Error

\* normalizeVMStatus on a string.
normalizeVMStatus(status) ==
  LET lowercaseStatus == toLowerCase(status) IN
  IF lowercaseStatus = lc_running THEN Running
  ELSE IF lowercaseStatus = lc_stopped THEN Stopped
  ELSE IF lowercaseStatus = lc_starting THEN Starting
  ELSE IF lowercaseStatus = lc_stopping THEN Stopping
  ELSE IF lowercaseStatus = lc_paused THEN Paused
  ELSE Error

\* --------------------------------------------------- convertApiVMToAppFormat

\* A number is <<n>>, or <<>> for NaN.
NaN == <<>>

DecimalDigits == <<"0", "1", "2", "3", "4", "5", "6", "7", "8", "9">>

RECURSIVE naturalToString(_)
\* The decimal digits of a natural number.
naturalToString(n) ==
  IF n < 10 THEN <<DecimalDigits[n + 1]>>
  ELSE naturalToString(n \div 10) \o <<DecimalDigits[(n % 10) + 1]>>

\* A number printed with NaN shown as 0.
numberToString_zeroForNaN(x) ==
  IF x = NaN THEN <<"0">>
  ELSE IF x[1] < 0 THEN <<"-">> \o naturalToString(-x[1])
  ELSE naturalToString(x[1])

\* A number as a template literal prints it.
numberToString(x) ==
  IF x = NaN THEN txt_NaN
  ELSE IF x[1] < 0 THEN <<"-">> \o naturalToString(-x[1])
  ELSE naturalToString(x[1])

\* A string-or-undefined value as a template literal prints it.
stringToString(v) == IF v = Undefined THEN txt_undefined ELSE v

\* The remainder left out: the dividend itself.
jsRemainder_dividend(a, b) == a

\* The % operator of JavaScript on integers: the sign of the dividend.
jsRemainder(a, b) == IF a >= 0 THEN a % b ELSE -((-a) % b)

MsPerHour == 3600000

MsPerMinute == 60000

\* Math.random() is k / RandomScale for a k in 0..RandomScale-1.
RandomScale == 1000

\* The band with its upper end included.
randomInBand_inclusive(k, width, base) ==
  ((k * (width + 1)) \div RandomScale) + base

\* Math.floor(Math.random() * width) + base for the draw k.
randomInBand(k, width, base) == ((k * width) \div RandomScale) + base

\* The TypeError of reading a property of undefined or null.
TypeError ==
  [name |-> "TypeError", message |-> txt_undefined, response |-> <<>>]

\* convertApiVMToAppFormat on one record; env holds what the call reads from
\* the clock (now) and from Math.random (cpu, memory, disk, network).  The
\* result is the VirtualMachine, or the TypeError of apiVM.status.toLowerCase()
\* on a record without status.  updated_at is the time new Date(updated_at)
\* stands for, NaN (an Invalid Date) when the record has no updated_at.
convertApiVMToAppFormat(apiVM, env) ==
  IF apiVM.status = Undefined THEN [threw |-> TRUE, value |-> TypeError]
  ELSE
    LET isRunning == toLowerCase(apiVM.status) = lc_running
        uptimeMs == IF isRunning
                    THEN IF apiVM.updated_at = NaN THEN NaN
                         ELSE <<env.now - apiVM.updated_at[1]>>
                    ELSE <<0>>
        hours == IF uptimeMs = NaN THEN NaN ELSE <<uptimeMs[1] \div MsPerHour>>
        minutes == IF uptimeMs = NaN THEN NaN
                   ELSE <<jsRemainder(uptimeMs[1], MsPerHour) \div MsPerMinute>>
        uptime == numberToString(hours) \o txt_h \o numberToString(minutes) \o txt_m
        normalizedStatus == normalizeVMStatus(apiVM.status)
    IN
    [ threw |-> FALSE,
      value |->
        [ id |-> IF Truthy(apiVM.instance_id) THEN apiVM.instance_id
                 ELSE txt_vm_dash \o (IF apiVM.id = <<>> THEN txt_undefined
                                      ELSE numberToString(apiVM.id)),
          name |-> stringToString(apiVM.instance_os) \o txt_spaceVM,
          status |-> normalizedStatus,
          os |-> apiVM.instance_os,
          assigned_user |-> apiVM.employee_id,
          uptime |-> uptime,
          health |-> Good,
          ip_address |-> ip_10_0_0_15,
          user_name |-> apiVM.user_name,
          user_email |-> apiVM.user_email,
          guacamole_url |-> apiVM.guacamole_url,
          instance_id |-> apiVM.instance_id,
          created_at |-> apiVM.created_at,
          resources |->
            [ cpu |-> IF isRunning THEN randomInBand(env.cpu, 60, 20) ELSE 0,
              memory |-> IF isRunning THEN randomInBand(env.memory, 50, 30) ELSE 0,
              disk |-> randomInBand(env.disk, 40, 10),
              network |-> IF isRunning THEN randomInBand(env.network, 40, 5) ELSE 0 ] ] ]

\* --------------------------------------------------------------- loadUserVMs

\* Truthiness of response.vms, a value of any type.
jsTruthy(v) ==
  IF v.type \in {"undefined", "null"} THEN FALSE
  ELSE IF v.type = "string" THEN v.text # <<>>
  ELSE TRUE

\* Array.isArray
isArray(v) == v.type = "array"

\* The callback zeroing cpu and network of a stopped entry but not memory.
overlayStatus_leavesMemory(vm, statusResponse) ==
  LET status == IF toLowerCase(vm.os) = lc_windows THEN statusResponse.windows
                ELSE IF toLowerCase(vm.os) = lc_linux THEN statusResponse.linux
                ELSE vm.status
      updated == [vm EXCEPT !.status = status]
  IN
  IF status = Stopped
  THEN [updated EXCEPT !.resources = [@ EXCEPT !.cpu = 0, !.network = 0],
                       !.uptime = uptime_0h0m]
  ELSE updated

\* The callback giving an entry that runs again its built-in cpu value.
overlayStatus_restoresWhenRunning(vm, statusResponse) ==
  LET status == IF toLowerCase(vm.os) = lc_windows THEN statusResponse.windows
                ELSE IF toLowerCase(vm.os) = lc_linux THEN statusResponse.linux
                ELSE vm.status
      updated == [vm EXCEPT !.status = status]
  IN
  IF status = Stopped
  THEN [updated EXCEPT !.resources = [@ EXCEPT !.cpu = 0, !.memory = 0,
                                               !.network = 0],
                       !.uptime = uptime_0h0m]
  ELSE IF status = Running
  THEN [updated EXCEPT !.resources =
                         [@ EXCEPT !.cpu = initialMockVMs[1].resources.cpu]]
  ELSE updated

\* The callback of mockVMs.map on one entry with a status response object:
\* the entry after the callback has changed it.
overlayStatus(vm, statusResponse) ==
  LET status == IF toLowerCase(vm.os) = lc_windows THEN statusResponse.windows
                ELSE IF toLowerCase(vm.os) = lc_linux THEN statusResponse.linux
                ELSE vm.status
      updated == [vm EXCEPT !.status = status]
  IN
  IF status = Stopped
  THEN [updated EXCEPT !.resources = [@ EXCEPT !.cpu = 0, !.memory = 0,
                                               !.network = 0],
                       !.uptime = uptime_0h0m]
  ELSE updated

\* The callback reads statusResponse.windows or statusResponse.linux for this
\* entry, which throws when the response is undefined or null.
readsStatusResponse(vm) ==
  toLowerCase(vm.os) = lc_windows \/ toLowerCase(vm.os) = lc_linux

\* The entry after the callback ran on it without reading the response.
zeroIfStopped(vm) ==
  IF vm.status = Stopped
  THEN [vm EXCEPT !.resources = [@ EXCEPT !.cpu = 0, !.memory = 0,
                                          !.network = 0],
                  !.uptime = uptime_0h0m]
  ELSE vm

\* mockVMs.map(vm => ...) of the single-user branch on the array vms with
\* the resolved value of getVMStatus (<<>> for undefined or null): the array
\* as the callbacks leave it, and whether a callback threw.
overlayAll(vms, statusResponse) ==
  IF statusResponse # <<>>
  THEN [ threw |-> FALSE,
         vms |-> [i \in 1..Len(vms) |-> overlayStatus(vms[i], statusResponse[1])] ]
  ELSE IF \E i \in 1..Len(vms) : readsStatusResponse(vms[i])
  THEN LET k == CHOOSE i \in 1..Len(vms) :
                  /\ readsStatusResponse(vms[i])
                  /\ \A j \in 1..(i - 1) : ~readsStatusResponse(vms[j])
       IN [ threw |-> TRUE,
            vms |-> [i \in 1..Len(vms) |->
                       IF i < k THEN zeroIfStopped(vms[i]) ELSE vms[i]] ]
  ELSE [ threw |-> FALSE,
         vms |-> [i \in 1..Len(vms) |-> zeroIfStopped(vms[i])] ]

\* The outer catch block throwing the error again after its notification.
loadUserVMs_catch_rethrows(error, vms) ==
  [ toasts |-> << toast_error(txt_ErrorLoadingVMs,
                              OrElse(errorResponseDataMessage(error),
                                     txt_FailedToLoad)) >>,
    outcome |-> "threw", returned |-> <<>>, thrown |-> <<error>> ]

\* The outer catch block: one error notification, the mock array is returned.
loadUserVMs_catch(error, vms) ==
  [ toasts |-> << toast_error(txt_ErrorLoadingVMs,
                              OrElse(errorResponseDataMessage(error),
                                     txt_FailedToLoad)) >>,
    outcome |-> "returned", returned |-> <<vms>>, thrown |-> <<>> ]

\* The single-user branch after getVMStatus has settled, on the mock array
\* vms: the result of the call and the mock array it leaves.
loadUserVMs_singleUser(settlement, vms) ==
  IF settlement.ok
  THEN LET overlay == overlayAll(vms, settlement.value) IN
       IF overlay.threw
       THEN [result |-> loadUserVMs_catch(TypeError, overlay.vms),
             mockVMs |-> overlay.vms]
       ELSE [result |-> [ toasts |-> <<>>, outcome |-> "returned",
                          returned |-> <<overlay.vms>>, thrown |-> <<>> ],
             mockVMs |-> overlay.vms]
  ELSE [result |-> loadUserVMs_catch(settlement.value, vms), mockVMs |-> vms]

\* The inner catch block returning an empty list.
loadUserVMs_allVMs_catch_emptyList(error, vms) ==
  [ toasts |-> << toast_error(txt_FailedToFetch, Undefined) >>,
    outcome |-> "returned", returned |-> << <<>> >>, thrown |-> <<>> ]

\* The inner catch block of the all-VMs branch.
loadUserVMs_allVMs_catch(error, vms) ==
  [ toasts |-> << toast_error(txt_FailedToFetch, Undefined) >>,
    outcome |-> "returned", returned |-> <<vms>>, thrown |-> <<>> ]

\* The else branch of the shape test without its notification.
loadUserVMs_allVMs_unexpected_silent(vms) ==
  [ toasts |-> <<>>,
    outcome |-> "returned", returned |-> <<vms>>, thrown |-> <<>> ]

\* The else branch of the shape test of the all-VMs branch.
loadUserVMs_allVMs_unexpected(vms) ==
  [ toasts |-> << toast_error(txt_UnexpectedFormat, Undefined) >>,
    outcome |-> "returned", returned |-> <<vms>>, thrown |-> <<>> ]

\* The shape test also asking for a non-empty array (response.vms.length).
hasVMsArray_nonEmpty(response) ==
  /\ response # <<>>
  /\ jsTruthy(response[1].vms)
  /\ isArray(response[1].vms)
  /\ response[1].vms.items # <<>>

\* response && response.vms && Array.isArray(response.vms)
hasVMsArray(response) ==
  /\ response # <<>>
  /\ jsTruthy(response[1].vms)
  /\ isArray(response[1].vms)

\* The all-VMs branch after getAllVMs has settled; envs[i] is what the mapper
\* reads from the clock and from Math.random for the i-th record.
loadUserVMs_allVMs(settlement, envs, vms) ==
  IF ~settlement.ok THEN loadUserVMs_allVMs_catch(settlement.value, vms)
  ELSE IF ~hasVMsArray(settlement.value) THEN loadUserVMs_allVMs_unexpected(vms)
  ELSE
    LET items == settlement.value[1].vms.items
        mapped == [i \in 1..Len(items) |-> convertApiVMToAppFormat(items[i], envs[i])]
    IN
    IF \E i \in 1..Len(items) : mapped[i].threw
    THEN loadUserVMs_allVMs_catch(TypeError, vms)
    ELSE [ toasts |-> <<>>, outcome |-> "returned",
           returned |-> <<[i \in 1..Len(items) |-> mapped[i].value]>>,
           thrown |-> <<>> ]

\* A call of loadUserVMs runs up to its await: getVMStatus(employeeId) when
\* employeeId is truthy, getAllVMs() otherwise.
loadUserVMs(employeeId) ==
  /\ Len(pending) < MaxInFlight
  /\ pending' = Append(pending,
       [ fn |-> "loadUserVMs", vmId |-> Undefined, action |-> Undefined,
         instanceOs |-> Undefined, employeeId |-> employeeId,
         remote |-> IF Truthy(employeeId)
                    THEN <<[op |-> "getVMStatus", args |-> <<employeeId>>]>>
                    ELSE <<[op |-> "getAllVMs", args |-> <<>>]>>,
         toasts |-> <<>>, overtaken |-> FALSE ])
  /\ UNCHANGED <<mockVMs, last, input, output>>

\* The settling of getVMStatus with the response of an overtaken call
\* dropped: that call returns the entries as they are.
loadUserVMs_statusSettled_dropsStale(i, settlement) ==
  /\ i \in 1..Len(pending)
  /\ pending[i].fn = "loadUserVMs"
  /\ Truthy(pending[i].employeeId)
  /\ LET run == IF pending[i].overtaken
                THEN [ result |-> [ toasts |-> <<>>, outcome |-> "returned",
                                    returned |-> <<mockVMs>>, thrown |-> <<>> ],
                       mockVMs |-> mockVMs ]
                ELSE loadUserVMs_singleUser(settlement, mockVMs)
     IN
     /\ last' = completed(pending[i], <<settlement>>, run.result)
     /\ mockVMs' = run.mockVMs
  /\ pending' = Completing(i)
  /\ UNCHANGED <<input, output>>

\* The awaited getVMStatus of the i-th suspended call settles and the call
\* runs to its end, changing the entries of mockVMs in place.
loadUserVMs_statusSettled(i, settlement) ==
  /\ i \in 1..Len(pending)
  /\ pending[i].fn = "loadUserVMs"
  /\ Truthy(pending[i].employeeId)
  /\ LET run == loadUserVMs_singleUser(settlement, mockVMs) IN
     /\ last' = completed(pending[i], <<settlement>>, run.result)
     /\ mockVMs' = run.mockVMs
  /\ pending' = Completing(i)
  /\ UNCHANGED <<input, output>>

\* The awaited getAllVMs of the i-th suspended call settles and the call
\* runs to its end.
loadUserVMs_allVMsSettled(i, settlement, envs) ==
  /\ i \in 1..Len(pending)
  /\ pending[i].fn = "loadUserVMs"
  /\ ~Truthy(pending[i].employeeId)
  /\ last' = completed(pending[i], <<settlement>>,
               loadUserVMs_allVMs(settlement, envs, mockVMs))
  /\ pending' = Completing(i)
  /\ UNCHANGED <<mockVMs, input, output>>

\* ------------------------------------------------- the vmService environment

\* Responses of startVM, stopVM and restartVM: an object with an optional
\* message and an optional URL.
ActionResponses ==
  { [message |-> Undefined, URL |-> Undefined],
    [message |-> <<>>, URL |-> Undefined],
    [message |-> msg_accepted, URL |-> Undefined],
    [message |-> msg_accepted, URL |-> url_console] }

\* Failures of a vmService request: no response at all, a response without a
\* body, a body without a message, a body with a message.
RequestErrors ==
  { [name |-> "AxiosError", message |-> msg_network, response |-> <<>>],
    [name |-> "AxiosError", message |-> msg_network,
     response |-> <<[data |-> <<>>]>>],
    [name |-> "AxiosError", message |-> msg_network,
     response |-> <<[data |-> <<[message |-> Undefined]>>]>>],
    [name |-> "AxiosError", message |-> msg_network,
     response |-> <<[data |-> <<[message |-> msg_denied]>>]>>] }

ActionSettlements ==
  {[ok |-> TRUE, value |-> r] : r \in ActionResponses}
    \cup {[ok |-> FALSE, value |-> e] : e \in RequestErrors}

\* The action strings given to handleVMAction.
Actions ==
  { act_Start, act_Stop, act_Restart, in_reset, in_RESET, in_launch, <<>> }

InstanceOses == {Windows, Linux}

EmployeeIds == {emp_001}

VmIds == {vm_001}

\* -------------------------------------------------- the dispatcher on its own

NextDispatch ==
  \/ \E vmId \in VmIds, action \in Actions, instanceOs \in InstanceOses,
        employeeId \in EmployeeIds :
       handleVMAction(vmId, action, instanceOs, employeeId)
  \/ \E i \in 1..MaxInFlight, settlement \in ActionSettlements :
       handleVMAction_settled(i, settlement)

SpecDispatch == Init /\ [][NextDispatch]_vars

\* ------------------------------------------- the environment of the loader

\* The values getVMStatus reports for an OS: VMStatus values, a raw
\* lower-case status, and undefined for a missing key.
StatusValues == {Running, Stopped, in_stopped, Undefined}

\* What getVMStatus resolves with: undefined or null, or {windows, linux},
\* the lower-case 'stopped' being sent for windows only.
StatusResponses ==
  {<<>>} \cup { <<[windows |-> w, linux |-> l]>> :
                  w \in StatusValues, l \in StatusValues \ {in_stopped} }

\* Failures of getVMStatus and getAllVMs.
LoadErrors ==
  { [name |-> "AxiosError", message |-> msg_network, response |-> <<>>],
    [name |-> "AxiosError", message |-> msg_network,
     response |-> <<[data |-> <<[message |-> msg_denied]>>]>>] }

StatusSettlements ==
  {[ok |-> TRUE, value |-> r] : r \in StatusResponses}
    \cup {[ok |-> FALSE, value |-> e] : e \in LoadErrors}

\* The time of the last update of the records of getAllVMs, in ms.
UpdatedAt == 1000000

\* A running record as the server sends it.
api_running ==
  [ instance_id |-> in_instance_1, id |-> <<7>>, instance_os |-> Windows,
    employee_id |-> emp_001, status |-> in_running, updated_at |-> <<UpdatedAt>>,
    guacamole_url |-> url_console, user_name |-> in_user_name,
    user_email |-> in_user_email, created_at |-> in_created_at ]

\* A stopped record without instance_id and without the optional fields.
api_stopped ==
  [ instance_id |-> Undefined, id |-> <<8>>, instance_os |-> Linux,
    employee_id |-> emp_002, status |-> in_STOPPED, updated_at |-> <<UpdatedAt>>,
    guacamole_url |-> Undefined, user_name |-> Undefined,
    user_email |-> Undefined, created_at |-> Undefined ]

\* A record without status.
api_noStatus ==
  [ instance_id |-> in_instance_2, id |-> <<9>>, instance_os |-> Linux,
    employee_id |-> emp_002, status |-> Undefined, updated_at |-> <<UpdatedAt>>,
    guacamole_url |-> Undefined, user_name |-> Undefined,
    user_email |-> Undefined, created_at |-> Undefined ]

\* The value of response.vms: absent, of a type that is no array, an array.
vmsAbsent == [type |-> "undefined", text |-> <<>>, items |-> <<>>]

vmsNull == [type |-> "null", text |-> <<>>, items |-> <<>>]

vmsString(text) == [type |-> "string", text |-> text, items |-> <<>>]

vmsObject == [type |-> "object", text |-> <<>>, items |-> <<>>]

vmsArray(items) == [type |-> "array", text |-> <<>>, items |-> items]

\* Resolved values of getAllVMs that are not of shape {vms: Array}:
\* undefined or null, {}, {vms: null}, {vms: 'oops'}, {vms: {}}.
MalformedAllVMsResponses ==
  { <<>>, <<[vms |-> vmsAbsent]>>, <<[vms |-> vmsNull]>>,
    <<[vms |-> vmsString(in_oops)]>>, <<[vms |-> vmsObject]>> }

\* Resolved values of getAllVMs of shape {vms: Array}.
ArrayAllVMsResponses ==
  { <<[vms |-> vmsArray(items)]>> :
      items \in { <<>>, <<api_running>>, <<api_stopped, api_running>>,
                  <<api_running, api_noStatus>> } }

\* What the mapper reads for one record: the clock 2 h 5 min after UpdatedAt
\* and the smallest draws, or a second later and the largest draws.
env_low ==
  [ now |-> UpdatedAt + (2 * MsPerHour) + (5 * MsPerMinute),
    cpu |-> 0, memory |-> 0, disk |-> 0, network |-> 0 ]

env_high ==
  [ now |-> UpdatedAt + (2 * MsPerHour) + (5 * MsPerMinute) + 1000,
    cpu |-> RandomScale - 1, memory |-> RandomScale - 1,
    disk |-> RandomScale - 1, network |-> RandomScale - 1 ]

\* How getAllVMs settles, each with what the mapper then reads per record;
\* only an array of records makes the mapper read anything.
AllVMsOutcomes ==
  {[settlement |-> [ok |-> TRUE, value |-> r], envs |-> <<env_low, env_high>>] :
     r \in MalformedAllVMsResponses \cup ArrayAllVMsResponses}
    \cup {[settlement |-> [ok |-> TRUE, value |-> r], envs |-> <<env_high, env_low>>] :
           r \in ArrayAllVMsResponses \ {<<[vms |-> vmsArray(<<>>)]>>}}
    \cup {[settlement |-> [ok |-> FALSE, value |-> e], envs |-> <<env_low, env_high>>] :
           e \in LoadErrors}

\* The employeeId argument of loadUserVMs: omitted, or an id.
LoadEmployeeIds == {Undefined, emp_001}

\* --------------------------------------------------------- the whole service

Next ==
  \/ \E employeeId \in LoadEmployeeIds : loadUserVMs(employeeId)
  \/ \E i \in 1..MaxInFlight, settlement \in StatusSettlements :
       loadUserVMs_statusSettled(i, settlement)
  \/ \E i \in 1..MaxInFlight, outcome \in AllVMsOutcomes :
       loadUserVMs_allVMsSettled(i, outcome.settlement, outcome.envs)
  \/ \E action \in {act_Stop, in_launch} :
       handleVMAction(vm_001, action, Windows, emp_001)
  \/ \E i \in 1..MaxInFlight,
        settlement \in { [ok |-> TRUE,
                          value |-> [message |-> msg_accepted, URL |-> Undefined]],
                         [ok |-> FALSE,
                          value |-> [name |-> "AxiosError", message |-> msg_network,
                                     response |-> <<>>]] } :
       handleVMAction_settled(i, settlement)

Spec == Init /\ [][Next]_vars

\* ------------------------------------------------------ claims: dispatcher

\* Two characters are the same letter up to case.
SameLetter(c, d) ==
  \/ c = d
  \/ \E i \in 1..26 : {c, d} = {UpperCaseLetters[i], LowerCaseLetters[i]}

\* Two strings are equal up to the case of their letters.
EqualsIgnoringCase(a, b) ==
  /\ Len(a) = Len(b)
  /\ \A i \in 1..Len(a) : SameLetter(a[i], b[i])

\* The action is start, stop, restart or reset, in any casing.
SupportedAction(action) ==
  \E w \in {lc_start, lc_stop, lc_restart, lc_reset} : EqualsIgnoringCase(action, w)

\* The remote operation the contract assigns to a supported action.
ContractOperation(action) ==
  IF EqualsIgnoringCase(action, lc_start) THEN "startVM"
  ELSE IF EqualsIgnoringCase(action, lc_stop) THEN "stopVM"
  ELSE "restartVM"

\* The remote invocations of a call are exactly the one the contract names.
InvokesContractOperationOnce(call) ==
  /\ Len(call.remote) = 1
  /\ call.remote[1].op = ContractOperation(call.action)
  /\ call.remote[1].args = <<call.instanceOs, call.employeeId>>

LastIsAction == last.fn = "handleVMAction"

LastResolved == last.settled # <<>> /\ last.settled[1].ok

LastRejected == last.settled # <<>> /\ ~last.settled[1].ok

\* C1: a handleVMAction call with a supported action (any casing) invokes
\* exactly one remote operation, the one matching the action, with
\* (instanceOs, employeeId), both while it is suspended and once it has
\* completed; when the operation resolved, the call returned its response.
C1_OneRemoteOperationAndItsResponse ==
  /\ \A i \in 1..Len(pending) :
       pending[i].fn = "handleVMAction" /\ SupportedAction(pending[i].action)
         => InvokesContractOperationOnce(pending[i])
  /\ LastIsAction /\ SupportedAction(last.action) =>
       /\ InvokesContractOperationOnce(last)
       /\ LastResolved =>
            /\ last.outcome = "returned"
            /\ last.returned = <<last.settled[1].value>>

\* A supported action given in capitals has resolved with a response that
\* carries a URL.
C1_Witness ==
  /\ LastIsAction
  /\ last.action = in_RESET
  /\ LastResolved
  /\ last.settled[1].value.URL = url_console
  /\ last.remote = <<[op |-> "restartVM", args |-> <<Linux, emp_001>>]>>

\* C2: a handleVMAction call with an unsupported action is never suspended on
\* a remote operation; it completes having invoked none, and throws the
\* 'Unsupported action: <action>' error to its caller.
C2_UnsupportedActionFailsWithoutRemoteCall ==
  /\ \A i \in 1..Len(pending) :
       pending[i].fn = "handleVMAction" => SupportedAction(pending[i].action)
  /\ LastIsAction /\ ~SupportedAction(last.action) =>
       /\ last.remote = <<>>
       /\ last.settled = <<>>
       /\ last.outcome = "thrown"
       /\ last.returned = <<>>
       /\ Len(last.thrown) = 1
       /\ last.thrown[1].name = "Error"
       /\ last.thrown[1].message = txt_UnsupportedAction \o last.action

\* The action 'launch' has been dispatched and has failed.
C2_Witness ==
  /\ LastIsAction
  /\ last.action = in_launch
  /\ last.outcome = "thrown"

\* The message a failed request carries from the server, Undefined if none.
ServerSuppliedMessage(error) ==
  IF /\ error.response # <<>>
     /\ error.response[1].data # <<>>
     /\ error.response[1].data[1].message \notin {Undefined, <<>>}
  THEN error.response[1].data[1].message
  ELSE Undefined

\* C3: when the remote operation of a handleVMAction call failed, the call
\* emitted exactly one notification, an error notification described by the
\* server's message if there is one and by 'Failed to <action> VM.' otherwise,
\* and threw the very failure it received.
C3_FailureNotifiedOnceAndRethrown ==
  LastIsAction /\ LastRejected =>
    LET error == last.settled[1].value
        supplied == ServerSuppliedMessage(error)
    IN
    /\ Len(last.toasts) = 1
    /\ last.toasts[1].kind = "toast.error"
    /\ last.toasts[1].description =
         IF supplied # Undefined THEN supplied
         ELSE txt_FailedTo \o toLowerCase(last.action) \o txt_VMdot
    /\ last.outcome = "thrown"
    /\ last.thrown = <<error>>
    /\ last.returned = <<>>

\* A stop request has failed with a message from the server.
C3_Witness ==
  /\ LastIsAction
  /\ LastRejected
  /\ last.remote[1].op = "stopVM"
  /\ ServerSuppliedMessage(last.settled[1].value) = msg_denied

\* C4: when the remote operation of a handleVMAction call resolved, the call
\* emitted exactly one notification, a success notification described by the
\* response's message if it has one and by 'The VM is now being <action>ed.'
\* otherwise, and returned normally; a call still waiting for its remote
\* operation has emitted no notification.
C4_SuccessNotifiedOnceAfterSettling ==
  /\ \A i \in 1..Len(pending) :
       pending[i].fn = "handleVMAction" => pending[i].toasts = <<>>
  /\ LastIsAction /\ LastResolved =>
       LET message == last.settled[1].value.message IN
       /\ Len(last.toasts) = 1
       /\ last.toasts[1].kind = "toast"
       /\ last.toasts[1].description =
            IF message \notin {Undefined, <<>>} THEN message
            ELSE txt_TheVMIsNowBeing \o toLowerCase(last.action) \o txt_ed
       /\ last.outcome = "returned"
       /\ last.thrown = <<>>

\* A start request has resolved with a message while another call is still
\* waiting.
C4_Witness ==
  /\ LastIsAction
  /\ LastResolved
  /\ last.remote[1].op = "startVM"
  /\ last.settled[1].value.message = msg_accepted
  /\ pending # <<>>

\* The kinds of the notifications of a call, in order.
ToastKinds(toasts) == [i \in 1..Len(toasts) |-> toasts[i].kind]

\* What a call with action 'restart' and the same other arguments produces
\* when its remote operation settles the same way.
RestartOutcome(settlement) ==
  IF settlement.ok
  THEN handleVMAction_resolved(in_restart, settlement.value)
  ELSE handleVMAction_catch(in_restart, settlement.value)

\* C10: a handleVMAction call with action 'reset' (any casing) makes the
\* remote call of 'restart', exactly one restartVM(instanceOs, employeeId),
\* and ends as a 'restart' call ends: same return value or thrown failure,
\* same kind of notification.
C10_ResetIsRestart ==
  /\ \A i \in 1..Len(pending) :
       pending[i].fn = "handleVMAction"
         /\ EqualsIgnoringCase(pending[i].action, lc_reset)
         => pending[i].remote =
              <<[op |-> "restartVM",
                 args |-> <<pending[i].instanceOs, pending[i].employeeId>>]>>
  /\ LastIsAction /\ EqualsIgnoringCase(last.action, lc_reset) =>
       /\ last.remote =
            <<[op |-> "restartVM", args |-> <<last.instanceOs, last.employeeId>>]>>
       /\ LET restart == RestartOutcome(last.settled[1]) IN
          /\ last.outcome = restart.outcome
          /\ last.returned = restart.returned
          /\ last.thrown = restart.thrown
          /\ ToastKinds(last.toasts) = ToastKinds(restart.toasts)

\* A 'reset' call has completed with a failure of restartVM.
C10_Witness ==
  /\ LastIsAction
  /\ last.action = in_reset
  /\ LastRejected
  /\ last.outcome = "thrown"

\* ---------------------------------------------------------- claims: loader

LastIsLoad == last.fn = "loadUserVMs"

\* The completed call was loadUserVMs() without employeeId.
LastIsAllVMsLoad == LastIsLoad /\ last.employeeId = Undefined

\* The completed call was loadUserVMs(employeeId) with an id.
LastIsSingleUserLoad == LastIsLoad /\ last.employeeId \notin {Undefined, <<>>}

\* A resolved value of getAllVMs has the shape {vms: Array}.
IsVMsArrayShape(response) ==
  response # <<>> /\ response[1].vms.type = "array"

\* getAllVMs failed, or resolved with a value not of shape {vms: Array}.
LastAllVMsFailedOrMalformed ==
  /\ LastIsAllVMsLoad
  /\ \/ LastRejected
     \/ LastResolved /\ ~IsVMsArrayShape(last.settled[1].value)

\* C5: loadUserVMs never throws to its caller; in all-VMs mode, when
\* getAllVMs failed or resolved with a value not of shape {vms: Array}, the
\* call emitted exactly one notification, an error notification, and returned
\* the mockVMs array.
C5_LoadNeverThrowsAndFallsBackToMock ==
  /\ LastIsLoad => last.outcome = "returned" /\ last.thrown = <<>>
  /\ LastAllVMsFailedOrMalformed =>
       /\ Len(last.toasts) = 1
       /\ last.toasts[1].kind = "toast.error"
       /\ last.returned = <<last.before>>
       /\ mockVMs = last.before

\* getAllVMs has resolved with {vms: 'oops'}.
C5_Witness ==
  /\ LastIsAllVMsLoad
  /\ LastResolved
  /\ last.settled[1].value = <<[vms |-> vmsString(in_oops)]>>
  /\ Len(last.returned[1]) = 2

\* C6: whatever calls came before, the list loadUserVMs() returns after a
\* failed or malformed getAllVMs holds the two mock entries with their
\* built-in values: vm-001 Windows Running '12h 45m' cpu 45 memory 60 disk 30
\* network 25, and vm-002 Linux Stopped '0h 0m' cpu 0 memory 0 disk 15
\* network 0.
C6_FallbackHasBuiltInValues ==
  LastAllVMsFailedOrMalformed =>
    LET vms == last.returned[1] IN
    /\ Len(vms) = 2
    /\ vms[1].id = vm_001 /\ vms[1].os = Windows
    /\ vms[1].status = Running /\ vms[1].uptime = uptime_12h45m
    /\ vms[1].resources = [cpu |-> 45, memory |-> 60, disk |-> 30, network |-> 25]
    /\ vms[2].id = vm_002 /\ vms[2].os = Linux
    /\ vms[2].status = Stopped /\ vms[2].uptime = uptime_0h0m
    /\ vms[2].resources = [cpu |-> 0, memory |-> 0, disk |-> 15, network |-> 0]

\* C7: when getVMStatus resolved with {windows: w, linux: l}, the
\* single-user loadUserVMs returned two entries, vm-001 (Windows) with status
\* w and then vm-002 (Linux) with status l, and every returned entry with
\* status 'Stopped' has cpu, memory and network 0, uptime '0h 0m' and the
\* disk value it had before.
C7_SingleUserOverlay ==
  LastIsSingleUserLoad /\ LastResolved /\ last.settled[1].value # <<>> =>
    LET statusResponse == last.settled[1].value[1]
        vms == last.returned[1]
    IN
    /\ Len(vms) = 2
    /\ vms[1].id = vm_001 /\ vms[1].os = Windows
    /\ vms[1].status = statusResponse.windows
    /\ vms[2].id = vm_002 /\ vms[2].os = Linux
    /\ vms[2].status = statusResponse.linux
    /\ \A i \in 1..2 :
         vms[i].status = Stopped =>
           /\ vms[i].resources.cpu = 0
           /\ vms[i].resources.memory = 0
           /\ vms[i].resources.network = 0
           /\ vms[i].uptime = uptime_0h0m
           /\ vms[i].resources.disk = last.before[i].resources.disk

\* {windows: 'Stopped', linux: 'Running'} has been overlaid on a Windows
\* entry that was running with its built-in resource values.
C7_Witness ==
  /\ LastIsSingleUserLoad
  /\ LastResolved
  /\ last.settled[1].value = <<[windows |-> Stopped, linux |-> Running]>>
  /\ last.before[1].status = Running
  /\ last.before[1].resources.memory = 60
  /\ last.returned[1][2].status = Running

\* C8: every entry of a list loadUserVMs returned has a status that is one
\* of the six VMStatus values.
C8_ReturnedStatusIsVMStatus ==
  LastIsLoad =>
    \A i \in 1..Len(last.returned[1]) : last.returned[1][i].status \in VMStatus

\* ------------------------------------------------ the normalizer on its own

\* Largest number of capital letters put into a word, short of all of them.
MaxCapitals == 2

\* The capital of a lower-case letter, any other character unchanged.
toUpperChar(c) ==
  IF \E i \in 1..26 : LowerCaseLetters[i] = c
  THEN UpperCaseLetters[CHOOSE i \in 1..26 : LowerCaseLetters[i] = c]
  ELSE c

\* The word with the characters at the given positions capitalised.
WithCapitalsAt(word, positions) ==
  [i \in 1..Len(word) |-> IF i \in positions THEN toUpperChar(word[i]) ELSE word[i]]

\* The word with up to MaxCapitals capitals anywhere, and in capitals.
CaseVariants(word) ==
  { WithCapitalsAt(word, positions) :
      positions \in {p \in SUBSET (1..Len(word)) : Cardinality(p) <= MaxCapitals} }
    \cup {WithCapitalsAt(word, 1..Len(word))}

\* The status strings given to normalizeVMStatus: the five labels, 'error',
\* near misses, an unknown state and '', in several casings.
NormalizerInputs ==
  UNION { CaseVariants(word) :
            word \in { lc_running, lc_stopped, lc_starting, lc_stopping,
                       lc_paused, in_error, in_unknown_state, in_run,
                       in_stoppedd, in_paused_space, <<>> } }

InitNormalize ==
  /\ mockVMs = initialMockVMs
  /\ pending = <<>>
  /\ last = noCall
  /\ input \in NormalizerInputs
  /\ output = <<>>

\* normalizeVMStatus is applied to the input.
applyNormalizeVMStatus ==
  /\ output = <<>>
  /\ output' = <<normalizeVMStatus(input)>>
  /\ UNCHANGED <<mockVMs, pending, last, input>>

SpecNormalize == InitNormalize /\ [][applyNormalizeVMStatus]_vars

\* The five labels the normalizer recognises.
KnownLabels == {Running, Stopped, Starting, Stopping, Paused}

\* C9: normalizeVMStatus gives a result for every string, one of the six
\* VMStatus values: a known label exactly when the string equals that label
\* up to case, and Error for every other string, 'Error' and '' included.
C9_NormalizerIsTotalAndCaseInsensitive ==
  /\ output = <<>> => ENABLED applyNormalizeVMStatus
  /\ output # <<>> =>
       /\ output[1] \in VMStatus
       /\ \A label \in KnownLabels :
            output[1] = label <=> EqualsIgnoringCase(input, label)
       /\ output[1] = Error <=>
            \A label \in KnownLabels : ~EqualsIgnoringCase(input, label)

\* 'STOPPED' has been normalized to 'Stopped'.
C9_Witness ==
  /\ input = in_STOPPED
  /\ output = <<Stopped>>

\* ------------------------------------------------- the all-VMs loader on its own

\* Largest number of records in a response of getAllVMs.
MaxVMs == 2

\* The records the server sends.
ApiRecords == {api_running, api_stopped, api_noStatus}

\* The arrays of at most MaxVMs records.
ApiRecordLists == UNION {[1..n -> ApiRecords] : n \in 0..MaxVMs}

\* What the mapper reads from the clock and Math.random, record by record:
\* low and high draws in turn, starting with either.
MapperEnvLists ==
  { [i \in 1..MaxVMs |-> IF i % 2 = first THEN env_low ELSE env_high] :
      first \in 0..1 }

\* How getAllVMs settles: with an array of records, with {} or with a failure.
ListSettlements ==
  {[ok |-> TRUE, value |-> <<[vms |-> vmsArray(items)]>>] : items \in ApiRecordLists}
    \cup { [ok |-> TRUE, value |-> <<[vms |-> vmsAbsent]>>],
           [ok |-> FALSE,
            value |-> [name |-> "AxiosError", message |-> msg_network,
                       response |-> <<>>]] }

NextAllVMs ==
  \/ \E employeeId \in {Undefined, <<>>} : loadUserVMs(employeeId)
  \/ \E i \in 1..MaxInFlight, settlement \in ListSettlements,
        envs \in MapperEnvLists :
       loadUserVMs_allVMsSettled(i, settlement, envs)

SpecAllVMs == Init /\ [][NextAllVMs]_vars

\* ------------------------------------------------- claims: all-VMs loader

\* The VMStatus value a status string stands for.
StatusFor(status) ==
  IF \E label \in KnownLabels : EqualsIgnoringCase(status, label)
  THEN CHOOSE label \in KnownLabels : EqualsIgnoringCase(status, label)
  ELSE Error

\* A record has a status and a time of last update.
WellFormedRecord(record) ==
  record.status # Undefined /\ record.updated_at # NaN

\* The completed call was a loadUserVMs in all-VMs mode whose getAllVMs
\* resolved with {vms: [...]}.
LastLoadedVMsArray ==
  /\ LastIsLoad
  /\ ~LastIsSingleUserLoad
  /\ LastResolved
  /\ IsVMsArrayShape(last.settled[1].value)

\* C11: when getAllVMs resolved with {vms: [r1..rn]} of well-formed records,
\* loadUserVMs() returned n entries in the same order, the i-th being the
\* mapper's output for ri (status the normalized ri.status, os ri.instance_os,
\* assigned_user ri.employee_id), emitted no notification and returned none
\* of the mock entries.
C11_AllVMsMapsEveryRecordInOrder ==
  LastLoadedVMsArray =>
    LET items == last.settled[1].value[1].vms.items
        vms == last.returned[1]
    IN
    (\A i \in 1..Len(items) : WellFormedRecord(items[i])) =>
      /\ last.toasts = <<>>
      /\ Len(vms) = Len(items)
      /\ \A i \in 1..Len(items) :
           /\ vms[i].status = StatusFor(items[i].status)
           /\ vms[i].os = items[i].instance_os
           /\ vms[i].assigned_user = items[i].employee_id
           /\ \E env \in {env_low, env_high} :
                vms[i] = convertApiVMToAppFormat(items[i], env).value
           /\ \A j \in 1..Len(mockVMs) : vms[i] # mockVMs[j]

\* [stopped, running] has been mapped to two entries.
C11_Witness ==
  /\ LastLoadedVMsArray
  /\ last.settled[1].value[1].vms.items = <<api_stopped, api_running>>
  /\ Len(last.returned[1]) = 2
  /\ last.returned[1][1].status = Stopped
  /\ last.returned[1][2].status = Running

\* ------------------------------------------------------ the mapper on its own

\* Largest number of whole hours between updated_at and now.
MaxUptimeHours == 2

\* The times between updated_at and now, in ms: whole hours, 0, 5 or 59
\* minutes, and a minute just begun or about to end.
UptimeSamples ==
  { (h * MsPerHour) + (m * MsPerMinute) + ms :
      h \in 0..MaxUptimeHours, m \in {0, 5, 59}, ms \in {0, MsPerMinute - 1} }

\* Draws of Math.random: the smallest, the middle, the largest.
RandomSamples == {0, RandomScale \div 2, RandomScale - 1}

\* What the mapper reads from the clock and from Math.random.
MapperEnvs ==
  { [now |-> UpdatedAt + d, cpu |-> c, memory |-> c, disk |-> k, network |-> n] :
      d \in UptimeSamples, c \in RandomSamples, k \in RandomSamples,
      n \in RandomSamples }

\* The status of a record: 'running' in three casings, other labels, 'error',
\* an unknown state, '', and no status.
MapperStatuses ==
  { in_running, Running, in_RUNNING, in_STOPPED, in_Paused, in_error,
    in_unknown_state, <<>>, Undefined }

\* The records given to the mapper, with and without updated_at.
MapperRecords ==
  { [base EXCEPT !.status = status, !.updated_at = updatedAt] :
      base \in {api_running, api_stopped}, status \in MapperStatuses,
      updatedAt \in {<<UpdatedAt>>, NaN} }

InitMapper ==
  /\ mockVMs = initialMockVMs
  /\ pending = <<>>
  /\ last = noCall
  /\ input \in {[apiVM |-> record, env |-> env] :
                  record \in MapperRecords, env \in MapperEnvs}
  /\ output = <<>>

\* convertApiVMToAppFormat is applied to the input.
applyConvertApiVMToAppFormat ==
  /\ output = <<>>
  /\ output' = <<convertApiVMToAppFormat(input.apiVM, input.env)>>
  /\ UNCHANGED <<mockVMs, pending, last, input>>

SpecMapper == InitMapper /\ [][applyConvertApiVMToAppFormat]_vars

\* ----------------------------------------------------------- claims: mapper

\* The mapper has returned a VirtualMachine.
Mapped == output # <<>> /\ ~output[1].threw

\* C12: a VirtualMachine the mapper returns with a status other than Running
\* has uptime '0h 0m', cpu, memory and network 0 and disk in [10, 50); one
\* with status Running has cpu in [20, 80), memory in [30, 80), network in
\* [5, 45) and disk in [10, 50), whatever Math.random draws.
C12_ResourceBands ==
  Mapped =>
    LET vm == output[1].value IN
    /\ vm.resources.disk \in 10..49
    /\ vm.status # Running =>
         /\ vm.uptime = uptime_0h0m
         /\ vm.resources.cpu = 0
         /\ vm.resources.memory = 0
         /\ vm.resources.network = 0
    /\ vm.status = Running =>
         /\ vm.resources.cpu \in 20..79
         /\ vm.resources.memory \in 30..79
         /\ vm.resources.network \in 5..44

\* A running record has been mapped with the largest draws.
C12_Witness ==
  /\ Mapped
  /\ input.apiVM.status = in_RUNNING
  /\ output[1].value.status = Running
  /\ output[1].value.resources =
       [cpu |-> 79, memory |-> 79, disk |-> 49, network |-> 44]

DigitCharacters == {DecimalDigits[i] : i \in 1..10}

\* The string is a decimal numeral without a sign or a leading zero.
IsNumeral(s) ==
  /\ Len(s) >= 1
  /\ \A i \in 1..Len(s) : s[i] \in DigitCharacters
  /\ Len(s) > 1 => s[1] # "0"

RECURSIVE NumeralValue(_)
\* The number a decimal numeral stands for.
NumeralValue(s) ==
  IF s = <<>> THEN 0
  ELSE (10 * NumeralValue(SubSeq(s, 1, Len(s) - 1)))
         + ((CHOOSE i \in 1..10 : DecimalDigits[i] = s[Len(s)]) - 1)

\* The string is '<hours>h <minutes>m' for the two numbers.
IsUptimeOf(s, hours, minutes) ==
  \E k \in 1..Len(s) :
    /\ s[k] = "h"
    /\ Len(s) >= k + 3
    /\ s[k + 1] = " "
    /\ s[Len(s)] = "m"
    /\ IsNumeral(SubSeq(s, 1, k - 1))
    /\ NumeralValue(SubSeq(s, 1, k - 1)) = hours
    /\ IsNumeral(SubSeq(s, k + 2, Len(s) - 1))
    /\ NumeralValue(SubSeq(s, k + 2, Len(s) - 1)) = minutes

\* C13: for a record whose status is 'running' in any casing and whose
\* updated_at is d >= 0 ms before now, the uptime is '<H>h <M>m' with
\* H = floor(d / 3600000) and M = floor((d mod 3600000) / 60000), so that
\* 0 <= M <= 59 and 60 H + M = floor(d / 60000); 2 h 5 min give '2h 5m'.
C13_UptimeOfRunningRecord ==
  /\ output # <<>>
  /\ input.apiVM.status # Undefined
  /\ EqualsIgnoringCase(input.apiVM.status, lc_running)
  /\ input.apiVM.updated_at # NaN
  /\ input.env.now - input.apiVM.updated_at[1] >= 0
  =>
    LET d == input.env.now - input.apiVM.updated_at[1]
        H == d \div 3600000
        M == (d % 3600000) \div 60000
    IN
    /\ Mapped
    /\ IsUptimeOf(output[1].value.uptime, H, M)
    /\ M \in 0..59
    /\ (60 * H) + M = d \div 60000
    /\ d = 7500000 => output[1].value.uptime = uptime_2h5m

\* A record updated 2 h 5 min ago has been mapped.
C13_Witness ==
  /\ Mapped
  /\ input.apiVM.status = in_running
  /\ input.apiVM.updated_at # NaN
  /\ input.env.now - input.apiVM.updated_at[1] = 7500000
  /\ output[1].value.uptime = uptime_2h5m

\* C14 as stated: the mapper fails on a record without status and on a
\* record without updated_at.
C14_MissingStatusOrUpdatedAtThrows ==
  output # <<>> =>
    (input.apiVM.status = Undefined \/ input.apiVM.updated_at = NaN
       => output[1].threw)

\* C14, amended: the mapper throws a TypeError, which it does not catch, on a
\* record without status; on a record with status and without updated_at it
\* throws nothing and returns a VirtualMachine whose uptime is 'NaNh NaNm'
\* when the status is 'running' in any casing and '0h 0m' otherwise.
C14_OnlyMissingStatusThrows ==
  output # <<>> =>
    /\ input.apiVM.status = Undefined =>
         output[1].threw /\ output[1].value.name = "TypeError"
    /\ input.apiVM.status # Undefined =>
         /\ ~output[1].threw
         /\ input.apiVM.updated_at = NaN =>
              output[1].value.uptime =
                IF EqualsIgnoringCase(input.apiVM.status, lc_running)
                THEN uptime_NaN ELSE uptime_0h0m

\* A running record without updated_at has been mapped to a VirtualMachine.
C14_Witness ==
  /\ Mapped
  /\ input.apiVM.status = in_running
  /\ input.apiVM.updated_at = NaN
  /\ output[1].value.uptime = uptime_NaN
  /\ output[1].value.status = Running

\* ------------------------------------------------- the 'admin-projects' query

\* 'not started'
txt_notStarted ==
  <<"n", "o", "t", " ", "s", "t", "a", "r", "t", "e", "d">>

\* 'Not Assigned'
txt_NotAssigned ==
  <<"N", "o", "t", " ", "A", "s", "s", "i", "g", "n", "e", "d">>

\* 'Invalid projects data format'
txt_InvalidProjects ==
  <<"I", "n", "v", "a", "l", "i", "d", " ", "p", "r", "o", "j", "e", "c", "t", "s", " ", "d", "a", "t", "a", " ", "f", "o", "r", "m", "a", "t">>

\* 'The server returned projects in an unexpected format.'
txt_InvalidProjectsDescription ==
  <<"T", "h", "e", " ", "s", "e", "r", "v", "e", "r", " ", "r", "e", "t", "u", "r", "n", "e", "d", " ", "p", "r", "o", "j", "e", "c", "t", "s", " ", "i", "n", " ", "a", "n", " ", "u", "n", "e", "x", "p", "e", "c", "t", "e", "d", " ", "f", "o", "r", "m", "a", "t", ".">>

\* 'Failed to load projects'
txt_FailedToLoadProjects ==
  <<"F", "a", "i", "l", "e", "d", " ", "t", "o", " ", "l", "o", "a", "d", " ", "p", "r", "o", "j", "e", "c", "t", "s">>

\* 'There was an error loading projects. Please try again later.'
txt_FailedToLoadProjectsDescription ==
  <<"T", "h", "e", "r", "e", " ", "w", "a", "s", " ", "a", "n", " ", "e", "r", "r", "o", "r", " ", "l", "o", "a", "d", "i", "n", "g", " ", "p", "r", "o", "j", "e", "c", "t", "s", ".", " ", "P", "l", "e", "a", "s", "e", " ", "t", "r", "y", " ", "a", "g", "a", "i", "n", " ", "l", "a", "t", "e", "r", ".">>

\* 'Audit'
in_Audit ==
  <<"A", "u", "d", "i", "t">>

\* 'active'
in_active ==
  <<"a", "c", "t", "i", "v", "e">>

\* '2025-01-01'
in_start_date ==
  <<"2", "0", "2", "5", "-", "0", "1", "-", "0", "1">>

\* '2025-06-30'
in_end_date ==
  <<"2", "0", "2", "5", "-", "0", "6", "-", "3", "0">>

\* 'Dana'
in_Dana ==
  <<"D", "a", "n", "a">>

\* Largest number of elements of the array getAllProjects resolves with.
MaxProjects == 2

\* Maps an ApiProject to a Project leaving end_date as it came.
mapApiProjectToProject_rawEndDate(apiProject) ==
  [ id |-> apiProject.id,
    name |-> OrElse(apiProject.name, <<>>),
    description |-> OrElse(apiProject.description, <<>>),
    status |-> OrElse(apiProject.status, txt_notStarted),
    start_date |-> apiProject.start_date,
    end_date |-> apiProject.end_date,
    scope |-> OrElse(apiProject.scope, <<>>),
    manager |-> OrElse(apiProject.manager, txt_NotAssigned),
    manager_name |-> OrElse(apiProject.manager_name, txt_NotAssigned),
    archived |-> IF apiProject.archived = <<TRUE>> THEN <<TRUE>> ELSE <<FALSE>> ]

\* Maps an ApiProject to a Project.  archived is <<>> when absent, else
\* <<TRUE>> or <<FALSE>>; archived || false is then <<TRUE>> or <<FALSE>>.
mapApiProjectToProject(apiProject) ==
  [ id |-> apiProject.id,
    name |-> OrElse(apiProject.name, <<>>),
    description |-> OrElse(apiProject.description, <<>>),
    status |-> OrElse(apiProject.status, txt_notStarted),
    start_date |-> apiProject.start_date,
    end_date |-> OrElse(apiProject.end_date, <<>>),
    scope |-> OrElse(apiProject.scope, <<>>),
    manager |-> OrElse(apiProject.manager, txt_NotAssigned),
    manager_name |-> OrElse(apiProject.manager_name, txt_NotAssigned),
    archived |-> IF apiProject.archived = <<TRUE>> THEN <<TRUE>> ELSE <<FALSE>> ]

\* The catch block rethrowing after its notification.
queryFn_catch_rethrows(error) ==
  [ toasts |-> <<toast_error(txt_FailedToLoadProjects,
                             txt_FailedToLoadProjectsDescription)>>,
    outcome |-> "threw", returned |-> <<>>, thrown |-> <<error>> ]

\* The catch block: one error notification, the empty list.
queryFn_catch(error) ==
  [ toasts |-> <<toast_error(txt_FailedToLoadProjects,
                             txt_FailedToLoadProjectsDescription)>>,
    outcome |-> "returned", returned |-> << <<>> >>, thrown |-> <<>> ]

\* The else branch: one error notification, the empty list.
queryFn_unexpected ==
  [ toasts |-> <<toast_error(txt_InvalidProjects,
                             txt_InvalidProjectsDescription)>>,
    outcome |-> "returned", returned |-> << <<>> >>, thrown |-> <<>> ]

\* The query function from the settling of getAllProjects to its end.  An
\* element of the array is <<apiProject>>, or <<>> for null or undefined, on
\* which the mapper's apiProject.id throws a TypeError inside the try block.
queryFn_resolved(settlement) ==
  IF ~settlement.ok THEN queryFn_catch(settlement.value)
  ELSE IF jsTruthy(settlement.value) /\ isArray(settlement.value)
  THEN LET items == settlement.value.items IN
       IF \E i \in 1..Len(items) : items[i] = <<>>
       THEN queryFn_catch(TypeError)
       ELSE [ toasts |-> <<>>, outcome |-> "returned",
              returned |-> <<[i \in 1..Len(items) |->
                                mapApiProjectToProject(items[i][1])]>>,
              thrown |-> <<>> ]
  ELSE queryFn_unexpected

\* A call of the query function runs up to its await of getAllProjects().
queryFn ==
  /\ Len(pending) < MaxInFlight
  /\ pending' = Append(pending,
       [ fn |-> "queryFn", vmId |-> Undefined, action |-> Undefined,
         instanceOs |-> Undefined, employeeId |-> Undefined,
         remote |-> <<[op |-> "getAllProjects", args |-> <<>>]>>,
         toasts |-> <<>>, overtaken |-> FALSE ])
  /\ UNCHANGED <<mockVMs, last, input, output>>

\* The awaited getAllProjects of the i-th suspended call settles and the call
\* runs to its end.
queryFn_settled(i, settlement) ==
  /\ i \in 1..Len(pending)
  /\ pending[i].fn = "queryFn"
  /\ last' = completed(pending[i], <<settlement>>, queryFn_resolved(settlement))
  /\ pending' = Completing(i)
  /\ UNCHANGED <<mockVMs, input, output>>

\* An ApiProject with every field given.
api_project ==
  [ id |-> <<3>>, name |-> in_Audit, description |-> <<>>,
    status |-> in_active, start_date |-> in_start_date,
    end_date |-> in_end_date, scope |-> <<>>, manager |-> in_Dana,
    manager_name |-> in_Dana, archived |-> <<TRUE>> ]

\* ApiProjects: end_date a date, '' or null; with and without the optional
\* manager, manager_name and archived.
ApiProjects ==
  { [api_project EXCEPT !.id = IF manager = Undefined THEN <<3>> ELSE <<4>>,
                        !.end_date = end_date,
                        !.manager = manager, !.manager_name = manager,
                        !.archived = IF manager = Undefined THEN <<>>
                                     ELSE <<FALSE>>] :
      end_date \in {in_end_date, <<>>, Null}, manager \in {in_Dana, Undefined} }

\* The elements of a resolved array: ApiProjects and null.
ProjectElements == {<<apiProject>> : apiProject \in ApiProjects} \cup {<<>>}

\* What getAllProjects settles with: arrays, values that are no array
\* (undefined, null, '', 'oops', an object), a rejection.
ProjectSettlements ==
  { [ok |-> TRUE, value |-> vmsArray(items)] :
      items \in UNION {[1..n -> ProjectElements] : n \in 0..MaxProjects} }
  \cup { [ok |-> TRUE, value |-> value] :
           value \in {vmsAbsent, vmsNull, vmsString(<<>>), vmsString(in_oops),
                      vmsObject} }
  \cup { [ok |-> FALSE,
          value |-> [ name |-> "AxiosError", message |-> msg_network,
                      response |-> <<>> ]] }

NextProjects ==
  \/ queryFn
  \/ \E i \in 1..MaxInFlight, settlement \in ProjectSettlements :
       queryFn_settled(i, settlement)

SpecProjects == Init /\ [][NextProjects]_vars

\* ---------------------------------------------------- claims: admin projects

\* The completed call was the query function.
LastIsQuery == last.fn = "queryFn"

\* getAllProjects resolved with an array.
LastQueryGotArray ==
  LastIsQuery /\ LastResolved /\ isArray(last.settled[1].value)

\* The Projects mapApiProjectToProject makes of the elements of the array.
MappedInOrder(items, projects) ==
  /\ Len(projects) = Len(items)
  /\ \A i \in 1..Len(items) :
       /\ items[i] # <<>>
       /\ projects[i] = mapApiProjectToProject(items[i][1])

\* Never fails, and on a rejection or a value that is no array: one error
\* notification and the empty list.
QueryFailsSafe ==
  /\ last.outcome = "returned"
  /\ last.thrown = <<>>
  /\ ~LastQueryGotArray =>
       /\ Len(last.toasts) = 1
       /\ last.toasts[1].kind = "toast.error"
       /\ last.returned = << <<>> >>

\* C15 as stated: the query function never fails to its caller; on a
\* rejection or a value that is no array it emits one error notification and
\* returns the empty list; on any array it returns the elements mapped by
\* mapApiProjectToProject, in order, and emits no error notification.
C15_QueryMapsEveryArray ==
  LastIsQuery =>
    /\ QueryFailsSafe
    /\ LastQueryGotArray =>
         /\ last.toasts = <<>>
         /\ MappedInOrder(last.settled[1].value.items, last.returned[1])

\* C15, amended: the query function never fails to its caller; on a
\* rejection or a value that is no array it emits one error notification and
\* returns the empty list; on an array without null or undefined elements it
\* returns the elements mapped by mapApiProjectToProject, in order, and emits
\* no error notification; on an array with a null or undefined element it
\* emits the one notification 'Failed to load projects' and returns the empty
\* list.
C15_QueryMapsArraysOfObjects ==
  LastIsQuery =>
    /\ QueryFailsSafe
    /\ LastQueryGotArray =>
         LET items == last.settled[1].value.items IN
         IF \A i \in 1..Len(items) : items[i] # <<>>
         THEN /\ last.toasts = <<>>
              /\ MappedInOrder(items, last.returned[1])
         ELSE /\ last.toasts =
                   <<toast_error(txt_FailedToLoadProjects,
                                 txt_FailedToLoadProjectsDescription)>>
              /\ last.returned = << <<>> >>

\* An array of an ApiProject and null has been answered with the empty list
\* and one error notification.
C15_Witness ==
  /\ LastQueryGotArray
  /\ Len(last.settled[1].value.items) = 2
  /\ last.settled[1].value.items[1] # <<>>
  /\ last.settled[1].value.items[2] = <<>>
  /\ last.returned = << <<>> >>
  /\ Len(last.toasts) = 1

\* C16: the Project made of an ApiProject has the ApiProject's id, and its
\* end_date is a string: '' when the ApiProject's end_date is null or '',
\* the ApiProject's end_date otherwise.
C16_EndDateIsStringAndIdKept ==
  LastQueryGotArray /\ last.toasts = <<>> =>
    \A i \in 1..Len(last.returned[1]) :
      LET apiProject == last.settled[1].value.items[i][1]
          project == last.returned[1][i]
      IN
      /\ project.id = apiProject.id
      /\ project.end_date # Null
      /\ project.end_date # Undefined
      /\ project.end_date =
           IF apiProject.end_date = Null \/ apiProject.end_date = <<>>
           THEN <<>> ELSE apiProject.end_date

\* An ApiProject with end_date null has been mapped to a Project with
\* end_date ''.
C16_Witness ==
  /\ LastQueryGotArray
  /\ last.toasts = <<>>
  /\ Len(last.returned[1]) = 2
  /\ last.settled[1].value.items[1][1].end_date = Null
  /\ last.returned[1][1].end_date = <<>>
  /\ last.settled[1].value.items[2][1].end_date = in_end_date
  /\ last.returned[1][2].end_date = in_end_date
  /\ last.returned[1][2].id = <<4>>

\* ------------------------------------------------------ claims: shared state

\* C17: only the completion of a single-user loadUserVMs changes mockVMs:
\* every step of handleVMAction (issued, resolved, rejected, unsupported
\* action) and of loadUserVMs() in all-VMs mode (issued, mapped, malformed
\* response, request failure) leaves every field of every mock entry as it
\* was.
C17_OnlySingleUserLoadChangesMock ==
  [][ mockVMs' # mockVMs =>
        /\ \E i \in 1..Len(pending) :
             IsSingleUserLoad(pending[i]) /\ pending' = Completing(i)
        /\ last'.fn = "loadUserVMs"
        /\ Truthy(last'.employeeId) ]_vars

\* A handleVMAction call or an all-VMs load has completed on mock entries
\* that an earlier single-user load had changed, and left them as they were.
C17_Witness ==
  /\ LastIsAction \/ LastIsAllVMsLoad
  /\ mockVMs # initialMockVMs
  /\ mockVMs = last.before
  /\ last.before[1].status = Stopped

\* ------------------------------------------------------------ VMTableActions

\* 'error'
lc_error ==
  <<"e", "r", "r", "o", "r">>

\* 'Stop VM'
title_StopVM ==
  <<"S", "t", "o", "p", " ", "V", "M">>

\* 'Connect to VM'
title_ConnectToVM ==
  <<"C", "o", "n", "n", "e", "c", "t", " ", "t", "o", " ", "V", "M">>

\* 'Start VM'
title_StartVM ==
  <<"S", "t", "a", "r", "t", " ", "V", "M">>

\* 'View Details'
title_ViewDetails ==
  <<"V", "i", "e", "w", " ", "D", "e", "t", "a", "i", "l", "s">>

\* 'Restart VM'
title_RestartVM ==
  <<"R", "e", "s", "t", "a", "r", "t", " ", "V", "M">>

\* '_blank'
txt_blank ==
  <<"_", "b", "l", "a", "n", "k">>

\* A <Button>: its title, whether it is disabled, and what its onClick calls.
Button(title, disabled, fn, action) ==
  [title |-> title, disabled |-> disabled, fn |-> fn, action |-> action]

\* A button calling onAction that stays enabled while the action is loading.
ActionButton_neverDisabled(props, title, action) ==
  Button(title, FALSE, "onAction", action)

\* A button whose onClick is onAction(vmId, action, instanceOs, employeeId)
\* and whose disabled is actionLoading === vmId.
ActionButton(props, title, action) ==
  Button(title, props.actionLoading = props.vmId, "onAction", action)

\* The buttons the component renders, in order.
VMTableActions(props) ==
  LET vmStatus == toLowerCase(props.status) IN
  (IF vmStatus = lc_running
   THEN <<ActionButton(props, title_StopVM, act_Stop)>>
        \o (IF Truthy(props.guacamoleUrl)
            THEN <<Button(title_ConnectToVM, FALSE, "handleConnect", Undefined)>>
            ELSE <<>>)
   ELSE <<ActionButton(props, title_StartVM, act_Start)>>)
  \o <<Button(title_ViewDetails, FALSE, "onViewDetails", Undefined)>>
  \o (IF vmStatus = lc_error \/ vmStatus = lc_running
      THEN <<ActionButton(props, title_RestartVM, act_Restart)>>
      ELSE <<>>)

\* The status of the row: 'running' and 'error' in several casings, other
\* statuses and ''.
TableStatuses ==
  CaseVariants(lc_running) \cup CaseVariants(lc_error)
    \cup {Stopped, in_STOPPED, in_Paused, in_unknown_state, in_run, <<>>}

\* The props of a row for the VM vm-001: actionLoading is null, this VM's
\* id or another's; guacamoleUrl is absent, '' or a URL.
TableProps ==
  { [ vmId |-> vm_001, status |-> status, instanceOs |-> Windows,
      employeeId |-> emp_001, actionLoading |-> actionLoading,
      guacamoleUrl |-> guacamoleUrl ] :
      status \in TableStatuses, actionLoading \in {Null, vm_001, vm_002},
      guacamoleUrl \in {Undefined, <<>>, url_console} }

InitTable ==
  /\ mockVMs = initialMockVMs
  /\ pending = <<>>
  /\ last = noCall
  /\ input \in TableProps
  /\ output = <<>>

\* The component renders its buttons.
render ==
  /\ output = <<>>
  /\ output' = <<VMTableActions(input)>>
  /\ UNCHANGED <<mockVMs, pending, last, input>>

\* The user clicks the k-th button; a disabled button takes no click.  last
\* records the callback the click has called.
onClick(k) ==
  /\ output # <<>>
  /\ k \in 1..Len(output[1])
  /\ ~output[1][k].disabled
  /\ LET button == output[1][k] IN
     last' =
       IF button.fn = "onAction"
       THEN [noCall EXCEPT !.fn = "onAction", !.vmId = input.vmId,
                           !.action = button.action,
                           !.instanceOs = input.instanceOs,
                           !.employeeId = input.employeeId]
       ELSE IF button.fn = "onViewDetails"
       THEN [noCall EXCEPT !.fn = "onViewDetails"]
       ELSE IF Truthy(input.guacamoleUrl)
       THEN [noCall EXCEPT !.fn = "handleConnect",
                           !.remote = <<[op |-> "window.open",
                                         args |-> <<input.guacamoleUrl,
                                                    txt_blank>>]>>]
       ELSE [noCall EXCEPT !.fn = "handleConnect"]
  /\ UNCHANGED <<mockVMs, pending, input, output>>

NextTable ==
  \/ render
  \/ \E k \in 1..4 : onClick(k)

SpecTable == InitTable /\ [][NextTable]_vars

\* ----------------------------------------------------------- claims: table

\* The rendered buttons with the title.
Offered(title) ==
  {k \in 1..Len(output[1]) : output[1][k].title = title}

\* The one button with the title calls onAction with the action.
OffersAction(title, action) ==
  /\ Cardinality(Offered(title)) = 1
  /\ \A k \in Offered(title) :
       output[1][k].fn = "onAction" /\ output[1][k].action = action

\* C18: Stop is offered exactly when the status is 'running' in any casing
\* and Start exactly when it is not; Restart exactly when the status is
\* 'running' or 'error' in any casing; while actionLoading is the row's vmId
\* every offered Start, Stop and Restart is disabled and no click has called
\* onAction for that VM; View Details, and Connect when offered, are enabled.
C18_ControlsOfferedAndDisabled ==
  /\ output # <<>> =>
       LET running == EqualsIgnoringCase(input.status, lc_running)
           error == EqualsIgnoringCase(input.status, lc_error)
       IN
       /\ IF running THEN OffersAction(title_StopVM, act_Stop)
                     ELSE Offered(title_StopVM) = {}
       /\ IF running THEN Offered(title_StartVM) = {}
                     ELSE OffersAction(title_StartVM, act_Start)
       /\ IF running \/ error THEN OffersAction(title_RestartVM, act_Restart)
                              ELSE Offered(title_RestartVM) = {}
       /\ \A k \in 1..Len(output[1]) :
            output[1][k].disabled <=>
              (output[1][k].fn = "onAction" /\ input.actionLoading = input.vmId)
       /\ Cardinality(Offered(title_ViewDetails)) = 1
  /\ last.fn = "onAction" =>
       /\ input.actionLoading # last.vmId
       /\ last.vmId = input.vmId

\* A running row whose action is loading shows Stop, Connect, View Details
\* and Restart, of which Stop and Restart are disabled, and View Details has
\* been clicked.
C18_Witness ==
  /\ output # <<>>
  /\ input.status = Running
  /\ input.actionLoading = input.vmId
  /\ Len(output[1]) = 4
  /\ output[1][1].disabled /\ output[1][1].title = title_StopVM
  /\ ~output[1][2].disabled /\ output[1][2].title = title_ConnectToVM
  /\ ~output[1][3].disabled
  /\ output[1][4].disabled /\ output[1][4].title = title_RestartVM
  /\ last.fn = "onViewDetails"


\* The completed single-user load had its getVMStatus resolved with an
\* object {windows, linux}.
LastOverlaid ==
  LastIsSingleUserLoad /\ LastResolved /\ last.settled[1].value # <<>>

\* C19: with single-user loads in flight together, the load whose getVMStatus
\* settles applies its overlay to every mock entry in that one step, so that
\* the statuses in mockVMs, which are the entries the call returns, are those
\* of the response that settled last, also when that load was issued before
\* one that has already completed.
C19_LastSettledResponseWins ==
  LastOverlaid =>
    LET statusResponse == last.settled[1].value[1] IN
    /\ \A j \in 1..Len(mockVMs) :
         mockVMs[j].status =
           IF mockVMs[j].os = Windows THEN statusResponse.windows
           ELSE statusResponse.linux
    /\ last.returned = <<mockVMs>>

\* Of two loads in flight the one issued second completed first and left
\* vm-001 Stopped; the one issued first completed last with
\* {windows: 'Running', linux: 'Stopped'}, which is what mockVMs holds.
C19_Witness ==
  /\ LastOverlaid
  /\ last.overtaken
  /\ pending = <<>>
  /\ last.settled[1].value = <<[windows |-> Running, linux |-> Stopped]>>
  /\ last.before[1].status = Stopped
  /\ last.before[2].status = Running
  /\ mockVMs[1].status = Running
  /\ mockVMs[2].status = Stopped

\* C20: no step raises the cpu, memory or network value of a mock entry or
\* changes its disk value; an entry that was Stopped and that a single-user
\* load returns as Running has cpu, memory and network 0 and uptime '0h 0m'.
C20_ResourcesNeverComeBack ==
  /\ [][ \A j \in 1..Len(mockVMs) :
           /\ mockVMs'[j].resources.cpu <= mockVMs[j].resources.cpu
           /\ mockVMs'[j].resources.memory <= mockVMs[j].resources.memory
           /\ mockVMs'[j].resources.network <= mockVMs[j].resources.network
           /\ mockVMs'[j].resources.disk = mockVMs[j].resources.disk ]_vars
  /\ [](LastOverlaid =>
          \A j \in 1..Len(last.returned[1]) :
            last.before[j].status = Stopped
              /\ last.returned[1][j].status = Running =>
                /\ last.returned[1][j].resources.cpu = 0
                /\ last.returned[1][j].resources.memory = 0
                /\ last.returned[1][j].resources.network = 0
                /\ last.returned[1][j].uptime = uptime_0h0m)

\* vm-001, built in as Running with cpu 45, had been zeroed as Stopped and
\* has been returned as Running with cpu, memory and network 0, disk 30 and
\* uptime '0h 0m'.
C20_Witness ==
  /\ LastOverlaid
  /\ last.before[1].status = Stopped
  /\ last.returned[1][1].id = vm_001
  /\ last.returned[1][1].status = Running
  /\ last.returned[1][1].resources =
       [cpu |-> 0, memory |-> 0, disk |-> 30, network |-> 0]
  /\ last.returned[1][1].uptime = uptime_0h0m
  /\ initialMockVMs[1].resources.cpu = 45


\* ------------------------------------------------- claims: failures of a load

\* The completed single-user load had its getVMStatus rejected, or resolved
\* with undefined or null.
LastStatusFailed ==
  /\ LastIsSingleUserLoad
  /\ LastRejected \/ (LastResolved /\ last.settled[1].value = <<>>)

\* C21: a single-user loadUserVMs whose getVMStatus failed, or resolved with
\* null or undefined, returned without throwing, emitted the one error
\* notification 'Error Loading VMs', returned the mock entries, and left
\* every field of every mock entry as the call found it.
C21_FailedStatusLeavesMockAlone ==
  LastStatusFailed =>
    /\ last.outcome = "returned"
    /\ last.thrown = <<>>
    /\ Len(last.toasts) = 1
    /\ last.toasts[1].kind = "toast.error"
    /\ last.toasts[1].title = txt_ErrorLoadingVMs
    /\ last.returned = <<mockVMs>>
    /\ mockVMs = last.before

\* getVMStatus has resolved with null for a load that found vm-001 zeroed as
\* Stopped by an earlier load, and the entries are as it found them.
C21_Witness ==
  /\ LastStatusFailed
  /\ LastResolved
  /\ last.before[1].status = Stopped
  /\ last.before[2].status = Running
  /\ last.before[2].resources.cpu = 0
  /\ mockVMs = last.before
  /\ last.toasts[1].description = txt_FailedToLoad

\* The array getAllVMs resolved with has a record without status.
LastArrayHasRecordWithoutStatus ==
  /\ LastLoadedVMsArray
  /\ \E i \in 1..Len(last.settled[1].value[1].vms.items) :
       last.settled[1].value[1].vms.items[i].status = Undefined

\* C22: when getAllVMs resolved with {vms: [...]} holding at least one record
\* without status, loadUserVMs() returned the mock entries and none of the
\* mapped records, emitted exactly one error notification and threw nothing.
C22_RecordWithoutStatusFallsBackWhole ==
  LastArrayHasRecordWithoutStatus =>
    /\ last.outcome = "returned"
    /\ last.thrown = <<>>
    /\ Len(last.toasts) = 1
    /\ last.toasts[1].kind = "toast.error"
    /\ last.returned = <<mockVMs>>
    /\ \A i \in 1..Len(last.returned[1]),
          record \in {api_running, api_stopped},
          env \in {env_low, env_high} :
         last.returned[1][i] # convertApiVMToAppFormat(record, env).value

\* [running record, record without status] has been answered with the two
\* mock entries.
C22_Witness ==
  /\ LastArrayHasRecordWithoutStatus
  /\ last.settled[1].value[1].vms.items = <<api_running, api_noStatus>>
  /\ Len(last.returned[1]) = 2
  /\ last.returned[1][1].id = vm_001
  /\ last.returned[1][2].id = vm_002
  /\ last.toasts[1].title = txt_FailedToFetch


\* ------------------------------------- VMTableActions wired to handleVMAction

\* The rows of the table: the props of VMTableActions without a console URL.
PanelProps == {props \in TableProps : props.guacamoleUrl = Undefined}

InitPanel ==
  /\ mockVMs = initialMockVMs
  /\ pending = <<>>
  /\ last = noCall
  /\ input \in PanelProps
  /\ output = <<>>

\* The user clicks the k-th button, an enabled button whose onClick is
\* onAction(vmId, action, instanceOs, employeeId), with handleVMAction given
\* as onAction.
onAction_handleVMAction(k) ==
  /\ output # <<>>
  /\ k \in 1..Len(output[1])
  /\ ~output[1][k].disabled
  /\ output[1][k].fn = "onAction"
  /\ handleVMAction(input.vmId, output[1][k].action, input.instanceOs,
                    input.employeeId)

\* What the vmService operation of a clicked button settles with.
PanelSettlements ==
  { [ok |-> TRUE, value |-> [message |-> msg_accepted, URL |-> Undefined]],
    [ok |-> FALSE,
     value |-> [name |-> "AxiosError", message |-> msg_network,
                response |-> <<>>]] }

NextPanel ==
  \/ render
  \/ \E k \in 1..4 : onAction_handleVMAction(k)
  \/ \E i \in 1..MaxInFlight, settlement \in PanelSettlements :
       handleVMAction_settled(i, settlement)

SpecPanel == InitPanel /\ [][NextPanel]_vars

\* ---------------------------------------------- claims: table and dispatcher

\* The vmService operation the claim assigns to a control.
ControlOperation(title) ==
  IF title = title_StartVM THEN "startVM"
  ELSE IF title = title_StopVM THEN "stopVM"
  ELSE "restartVM"

\* The call came from a rendered control and invoked the operation of that
\* control, with the row's instanceOs and employeeId.
FromControl(call) ==
  \E k \in 1..Len(output[1]) :
    /\ output[1][k].fn = "onAction"
    /\ output[1][k].action = call.action
    /\ call.remote = <<[op |-> ControlOperation(output[1][k].title),
                        args |-> <<input.instanceOs, input.employeeId>>]>>

\* C23: for every status, the action of every rendered Start, Stop and
\* Restart control is one the switch of handleVMAction supports, selecting
\* startVM, stopVM and restartVM respectively; a call made by a click is
\* suspended on that operation and never completes through the
\* 'Unsupported action' branch.
C23_ControlsRouteToSupportedActions ==
  /\ output # <<>> =>
       \A k \in 1..Len(output[1]) :
         output[1][k].fn = "onAction" =>
           /\ output[1][k].title \in {title_StartVM, title_StopVM, title_RestartVM}
           /\ switchAction(output[1][k].action)
                = <<ControlOperation(output[1][k].title)>>
  /\ \A i \in 1..Len(pending) : FromControl(pending[i])
  /\ LastIsAction =>
       /\ FromControl(last)
       /\ last.settled # <<>>
       /\ last.thrown # <<UnsupportedActionError(last.action)>>

\* On a row with status 'Error' the Restart control has been clicked and
\* restartVM has resolved.
C23_Witness ==
  /\ input.status = Error
  /\ LastIsAction
  /\ LastResolved
  /\ last.action = act_Restart
  /\ last.remote = <<[op |-> "restartVM", args |-> <<Windows, emp_001>>]>>
  /\ last.outcome = "returned"

====
